---- MODULE Spec2Model ----
(***************************************************************************)
(* Model of telegram_phone_checker.py: the per-account daily quota store,  *)
(* the account rotator of AccountManager and the batch dispatcher of main. *)
(*                                                                         *)
(* Python dicts are functions whose DOMAIN is the set of keys.  Calendar   *)
(* dates (ISO strings in the code, only ever compared for equality and     *)
(* used as dict keys) are day numbers 0..MaxDay; the clock never runs      *)
(* backwards.  Accounts are identified by their phone number, a number     *)
(* 1..NumAccounts; accounts[i] is the i-th configured account (0-based as  *)
(* in the code).                                                           *)
(***************************************************************************)
EXTENDS Integers, Sequences, FiniteSets, TLC

\* ---------------------------------------------------------------- constants

ACCOUNT_DAILY_LIMIT == 50

\* ------------------------------------------------------------------- bounds

NumAccounts == 2
MaxIncs == 2
StartDay == 1
MaxRows == 5
MaxBatchSize == 2
MaxFaults == 1

\* One midnight may pass during a run; a run of consecutive get_next_account
\* calls is followed for one full round and one call more.
MaxDay == StartDay + 1
MaxCalls == NumAccounts + 1
Days == 0..MaxDay
Yesterday == StartDay - 1

\* Python's None where the code returns an account or None; accounts are
\* returned as their index in self.accounts.
None == -1

\* The configured accounts, in configuration order (self.accounts).
accounts == [i \in 0..(NumAccounts - 1) |-> i + 1]
AccountPhones == {accounts[i] : i \in DOMAIN accounts}
\* Phone 0 is an account that a limits file may mention and the
\* configuration does not.
StoredPhones == AccountPhones \cup {0}

\* Arguments the harness passes to the AccountManager methods.
BatchSizes == {3, ACCOUNT_DAILY_LIMIT + 1}
Deltas == {1, 2}

VARIABLES
    today,                  \* datetime.date.today()
    limits_file,            \* content of account_limits.json
    account_limits,         \* AccountManager.account_limits
    current_account_index,  \* AccountManager.current_account_index
    mgr,                    \* "new" before __init__, "ready" after
    ret,                    \* value returned by the last method call
    history,                \* get_next_account calls since the quota last changed
    base,                   \* get_account_limit per phone when the date last changed
    incs,                   \* deltas passed to increment_account_limit since then
    nincs,                  \* number of increment_account_limit calls so far
    saved,                  \* how the last save_account_limits call ended
    \* main
    pc,                     \* where main is
    batches,                \* len(b) for each b of batches, after slicing
    i,                      \* the for-loop's i (1-based, enumerate(batches, 1))
    account,                \* index of the account selected for batch i
    clients,                \* AccountManager.clients: phone -> is_connected()
    j,                      \* validate_users' i (1-based position in the batch)
    result,                 \* validate_users' result: the keys, in insertion order
    output,                 \* rows of the output CSV file
    processed_count,        \* main's processed_count
    exit,                   \* how main left the try block
    interrupted_at,         \* where main was when it was cancelled
    lookups,                \* get_names invocations per phone of the account used
    npauses,                \* asyncio.sleep calls made for pacing, by kind
    rows_written,           \* rows appended to the output for batch i
    quota_added,            \* count passed to increment_account_limit for batch i
    write_ok,               \* whether the writes of batch i's results all succeeded
    faults,                 \* I/O operations of main that have failed so far
    live,                   \* connected TelegramClient objects per phone
    \* validate_users and get_names
    phone_numbers,          \* validate_users' phone_numbers
    answers,                \* what get_names returned for each key of result
    contacts,               \* contacts imported into the account and not deleted
    events                  \* get_names calls and pacing sleeps of this validate_users call

svars == <<today, limits_file, account_limits, current_account_index>>
hvars == <<mgr, ret, history, base, incs, nincs, saved>>
dvars == <<pc, batches, i, account, clients, j, result, output, processed_count,
           exit, interrupted_at, lookups, npauses, rows_written, quota_added, write_ok, faults,
           live>>
bvars == <<phone_numbers, answers, contacts, events>>
vars == <<svars, hvars, dvars, bvars>>

\* ------------------------------------------------------------- dict helpers

EmptyDict == <<>>

DictGet(d, k, default) == IF k \in DOMAIN d THEN d[k] ELSE default

DictSet(d, k, v) == [x \in (DOMAIN d) \cup {k} |-> IF x = k THEN v ELSE d[x]]

\* -------------------------------------------------------------- quota store

\* account_limits.json: absent, unreadable as JSON, or a stored dict.
NoFile == [kind |-> "missing", data |-> EmptyDict]
Corrupt == [kind |-> "corrupt", data |-> EmptyDict]
JsonFile(d) == [kind |-> "json", data |-> d]

\* load_account_limits: a missing or unreadable file gives {}; otherwise
\* every stored phone whose record lacks today's date gets {today: 0}.
load_account_limits(file, day) ==
    IF file.kind # "json"
    THEN EmptyDict
    ELSE [p \in DOMAIN file.data |->
             IF day \notin DOMAIN file.data[p]
             THEN DictSet(EmptyDict, day, 0)
             ELSE file.data[p]]

\* save_account_limits: the file is rewritten in full; an I/O error is logged
\* and swallowed.  outcome "ok": written; "unchanged": open() failed;
\* "truncated": the file was opened for writing and json.dump failed.
SaveOutcomes == {"ok", "unchanged", "truncated"}

save_account_limits(file, limits, outcome) ==
    CASE outcome = "ok" -> JsonFile(limits)
      [] outcome = "unchanged" -> file
      [] OTHER -> Corrupt

\* Mutant: an account without an entry for today reads the count of the
\* latest date it has.
get_account_limit_carry(limits, day, phone) ==
    LET rec == DictGet(limits, phone, EmptyDict)
    IN  IF day \in DOMAIN rec THEN rec[day]
        ELSE IF rec = EmptyDict THEN 0
        ELSE rec[CHOOSE d \in DOMAIN rec : \A e \in DOMAIN rec : e <= d]

\* self.account_limits.get(phone_number, {}).get(today, 0)
get_account_limit(limits, day, phone) ==
    DictGet(DictGet(limits, phone, EmptyDict), day, 0)

\* Mutant: the count replaces today's entry instead of adding to it.
IncrementedLimits_assign(limits, day, phone, count) ==
    LET rec0 == DictGet(limits, phone, EmptyDict)
    IN  DictSet(limits, phone, DictSet(rec0, day, count))

\* Mutant: the count is added to today's entry of every account of the store.
IncrementedLimits_every(limits, day, phone, count) ==
    [q \in (DOMAIN limits) \cup {phone} |->
        LET rec0 == DictGet(limits, q, EmptyDict)
            rec1 == IF day \in DOMAIN rec0 THEN rec0 ELSE DictSet(rec0, day, 0)
        IN  DictSet(rec1, day, rec1[day] + count)]

\* increment_account_limit, the in-memory part (lines 142-147).
IncrementedLimits(limits, day, phone, count) ==
    LET rec0 == DictGet(limits, phone, EmptyDict)
        rec1 == IF day \in DOMAIN rec0 THEN rec0 ELSE DictSet(rec0, day, 0)
    IN  DictSet(limits, phone, DictSet(rec1, day, rec1[day] + count))

\* Mutant: the count is added only when the save succeeds.
increment_account_limit_lost(file, limits, day, phone, count, outcome) ==
    <<IF outcome = "ok" THEN IncrementedLimits(limits, day, phone, count) ELSE limits,
      save_account_limits(file, IncrementedLimits(limits, day, phone, count), outcome)>>

\* Mutant: the store is saved before the count is added.
increment_account_limit_savefirst(file, limits, day, phone, count, outcome) ==
    <<IncrementedLimits(limits, day, phone, count),
      save_account_limits(file, limits, outcome)>>

\* increment_account_limit (lines 141-148): the in-memory update, then
\* save_account_limits of the whole store: <<account_limits, file>> after.
increment_account_limit(file, limits, day, phone, count, outcome) ==
    <<IncrementedLimits(limits, day, phone, count),
      save_account_limits(file, IncrementedLimits(limits, day, phone, count), outcome)>>

\* ------------------------------------------------------------------ rotator

\* Mutant: only the usage so far is compared with the limit.
Eligible_nobatch(limits, day, phone, batch_size) ==
    get_account_limit(limits, day, phone) < ACCOUNT_DAILY_LIMIT

\* Mutant: the limit itself is not allowed to be reached.
Eligible_strict(limits, day, phone, batch_size) ==
    get_account_limit(limits, day, phone) + batch_size < ACCOUNT_DAILY_LIMIT

\* used + batch_size <= ACCOUNT_DAILY_LIMIT
Eligible(limits, day, phone, batch_size) ==
    get_account_limit(limits, day, phone) + batch_size <= ACCOUNT_DAILY_LIMIT

\* Mutant: the index is left at the selected account, not past it.
NextIndex_stay(idx) == idx % NumAccounts

\* self.current_account_index = (idx + 1) % n
NextIndex(idx) == (idx + 1) % NumAccounts

\* The for-loop of get_next_account from a given offset on: the index of the
\* account selected, or None.
RECURSIVE ScanFrom(_, _, _, _, _)
ScanFrom(limits, day, cur, batch_size, offset) ==
    IF offset >= NumAccounts
    THEN None
    ELSE LET idx == (cur + offset) % NumAccounts
         IN  IF Eligible(limits, day, accounts[idx], batch_size)
             THEN idx
             ELSE ScanFrom(limits, day, cur, batch_size, offset + 1)

\* Mutant: the index also advances when no account is selected.
get_next_account_advance(limits, day, cur, batch_size) ==
    LET sel == ScanFrom(limits, day, cur, batch_size, 0)
    IN  IF sel = None THEN <<None, NextIndex(cur)>> ELSE <<sel, NextIndex(sel)>>

\* get_next_account: <<index selected or None, new current_account_index>>.
get_next_account(limits, day, cur, batch_size) ==
    LET sel == ScanFrom(limits, day, cur, batch_size, 0)
    IN  IF sel = None THEN <<None, cur>> ELSE <<sel, NextIndex(sel)>>

\* ------------------------------------------------- AccountManager, by method

\* The records a limits file written by earlier runs holds for one phone:
\* yesterday only, today only (below the limit, at the limit).
NearLimit == ACCOUNT_DAILY_LIMIT - 3

StoredRecords ==
    { DictSet(EmptyDict, Yesterday, ACCOUNT_DAILY_LIMIT),
      DictSet(EmptyDict, StartDay, NearLimit),
      DictSet(EmptyDict, StartDay, ACCOUNT_DAILY_LIMIT) }

\* The record of an account used on both days by a run that went on past
\* midnight.
TwoDayRecord ==
    DictSet(DictSet(EmptyDict, Yesterday, ACCOUNT_DAILY_LIMIT), StartDay, NearLimit)

\* The stored dicts: any subset of the configured phones, each with one of
\* the records above, and possibly the unconfigured phone with a stale record.
StoredDicts ==
    UNION { [S -> StoredRecords] : S \in SUBSET AccountPhones }

WithStalePhone(d) == DictSet(d, 0, DictSet(EmptyDict, Yesterday, NearLimit))

FileContents ==
    {NoFile, Corrupt, JsonFile(WithStalePhone(EmptyDict)),
     JsonFile([p \in AccountPhones |-> TwoDayRecord])}
        \cup { JsonFile(d) : d \in StoredDicts }

\* What the store records for (phone, day), read off the dict itself.
Recorded(limits, day, phone) ==
    IF phone \in DOMAIN limits /\ day \in DOMAIN limits[phone]
    THEN limits[phone][day]
    ELSE 0

\* validate_users is not driven on its own.
IdleBatch ==
    /\ phone_numbers = <<>>
    /\ answers = <<>>
    /\ contacts = {}
    /\ events = <<>>

\* main has not started (the AccountManager is driven method by method).
IdleMain ==
    /\ pc = "idle"
    /\ batches = <<>>
    /\ i = 0
    /\ account = None
    /\ clients = EmptyDict
    /\ j = 0
    /\ result = <<>>
    /\ output = <<>>
    /\ processed_count = 0
    /\ exit = "none"
    /\ interrupted_at = "none"
    /\ lookups = [p \in AccountPhones |-> 0]
    /\ npauses = [request |-> 0, batch |-> 0]
    /\ rows_written = 0
    /\ quota_added = 0
    /\ write_ok = TRUE
    /\ faults = 0
    /\ live = [p \in AccountPhones |-> 0]
    /\ IdleBatch

ZeroGhost == [p \in AccountPhones |-> 0]
NoIncs == [p \in AccountPhones |-> <<>>]
UsedToday(limits, day) == [p \in AccountPhones |-> Recorded(limits, day, p)]

InitMgr ==
    /\ today = StartDay
    /\ limits_file \in FileContents
    /\ account_limits = EmptyDict
    /\ current_account_index = 0
    /\ mgr = "new"
    /\ ret = None
    /\ history = <<>>
    /\ base = ZeroGhost
    /\ incs = NoIncs
    /\ nincs = 0
    /\ saved = "none"
    /\ IdleMain

\* AccountManager.__init__ (lines 84-91): index 0, limits loaded from the file.
Construct ==
    /\ mgr = "new"
    /\ mgr' = "ready"
    /\ account_limits' = load_account_limits(limits_file, today)
    /\ current_account_index' = 0
    /\ base' = UsedToday(account_limits', today)
    /\ incs' = NoIncs
    /\ UNCHANGED <<today, limits_file, ret, history, nincs, saved, dvars, bvars>>

\* A call of get_next_account(batch_size).
CallGetNextAccount(batch_size) ==
    /\ mgr = "ready"
    /\ Len(history) < MaxCalls
    /\ LET r == get_next_account(account_limits, today, current_account_index, batch_size)
       IN  /\ ret' = r[1]
           /\ current_account_index' = r[2]
           /\ history' = Append(history,
                  [idx0 |-> current_account_index, bs |-> batch_size,
                   sel |-> r[1], idx1 |-> r[2]])
    /\ UNCHANGED <<today, limits_file, account_limits, mgr, base, incs, nincs, saved, dvars, bvars>>

\* A call of increment_account_limit(phone, count) (lines 141-148): the
\* in-memory update, then save_account_limits.
CallIncrement(phone, count, outcome) ==
    /\ mgr = "ready"
    /\ nincs < MaxIncs
    /\ nincs' = nincs + 1
    /\ LET r == increment_account_limit(limits_file, account_limits, today, phone, count,
                                         outcome)
       IN  account_limits' = r[1] /\ limits_file' = r[2]
    /\ incs' = [incs EXCEPT ![phone] = Append(@, count)]
    /\ history' = <<>>
    /\ ret' = None
    /\ saved' = outcome
    /\ UNCHANGED <<today, current_account_index, mgr, base, dvars, bvars>>

\* Midnight passes: datetime.date.today() changes.
Midnight ==
    /\ mgr = "ready"
    /\ today < MaxDay
    /\ today' = today + 1
    /\ base' = UsedToday(account_limits, today')
    /\ incs' = NoIncs
    /\ history' = <<>>
    /\ UNCHANGED <<limits_file, account_limits, current_account_index, mgr, ret, nincs, saved, dvars, bvars>>

\* The rotator under arbitrary calls: construction, get_next_account with any
\* batch size, increments (which end a run of consecutive calls), midnight.
NextRot ==
    \/ Construct
    \/ \E b \in BatchSizes : CallGetNextAccount(b)
    \/ \E p \in AccountPhones : CallIncrement(p, 1, "ok")
    \/ Midnight

SpecRot == InitMgr /\ [][NextRot]_vars

\* The quota store under arbitrary calls: construction, increments with any
\* delta and any outcome of the save, midnight.
NextQuota ==
    \/ Construct
    \/ \E p \in AccountPhones, c \in Deltas, o \in SaveOutcomes : CallIncrement(p, c, o)
    \/ Midnight

SpecQuota == InitMgr /\ [][NextQuota]_vars

\* --------------------------------------------------------------------- main

\* read_phone_numbers, by the lengths of the batches it forms: the for-loop
\* (lines 383-391) with `left` rows still to read and `cur` numbers in
\* current_batch.
RECURSIVE ReadRows(_, _, _)
ReadRows(left, cur, batch_size) ==
    IF left = 0
    THEN IF cur > 0 THEN <<cur>> ELSE <<>>
    ELSE IF cur + 1 >= batch_size
         THEN <<cur + 1>> \o ReadRows(left - 1, 0, batch_size)
         ELSE ReadRows(left - 1, cur + 1, batch_size)

\* read_phone_numbers for a file whose first row is a number or a header,
\* followed by `rest` rows holding a number each.
read_phone_numbers(first_is_number, rest, batch_size) ==
    ReadRows(rest, IF first_is_number THEN 1 ELSE 0, batch_size)

\* b[batch_start:batch_end] for 0 <= batch_start, batch_end.
Slice(b, batch_start, batch_end) ==
    LET stop == IF batch_end < Len(b) THEN batch_end ELSE Len(b)
    IN  IF stop <= batch_start THEN <<>>
        ELSE [k \in 1..(stop - batch_start) |-> b[batch_start + k]]

\* batches[batch_start:batch_end], when main goes on (the slice is not empty).
BatchLists ==
    { Slice(b, s, e) :
        b \in { read_phone_numbers(f, r, bs) :
                    f \in BOOLEAN, r \in 0..(MaxRows - 1), bs \in 1..MaxBatchSize },
        s \in 0..MaxRows, e \in 0..MaxRows } \ {<<>>}

\* Phone numbers are strings of characters; a batch's numbers are read as it
\* is processed.  The number at position k is a number of its own, or the
\* first number of the batch again, as it is or with a space inside.
Digit == <<"1", "2", "3", "4", "5", "6", "7", "8", "9">>
Number(k) == <<"+", "7", Digit[k]>>
Spaced(k) == <<"+", "7", " ", Digit[k]>>
PhoneChoices(k) == {Number(k), Number(1), Spaced(1)}

IsSpace(c) == c = " "

\* re.sub(r"\s+", "", phone)
CleanPhone(phone) == SelectSeq(phone, LAMBDA c : ~IsSpace(c))

Keys(res) == { res[k] : k \in DOMAIN res }

HeaderRow == [header |-> TRUE, phone |-> <<>>, by |-> 0]
ResultRow(phone, checked_by) == [header |-> FALSE, phone |-> phone, by |-> checked_by]

\* Mutant: the cache is not consulted, every call logs in.
Cached_never(cl, phone) == FALSE

\* Line 174: phone in self.clients and self.clients[phone].is_connected()
Cached(cl, phone) == phone \in DOMAIN cl /\ cl[phone]

\* The points where main is suspended in an await; get_client returns a
\* cached client without awaiting.
Suspended ==
    /\ pc \in {"connect", "authorize", "lookup", "pause", "batch_pause"}
    /\ pc = "connect" => ~Cached(clients, accounts[account])

\* Mutant: the sleep between batches is made after every batch.
AfterBatch_always == "batch_pause"

\* What follows a batch (lines 533-536 and the end of the for-loop).
AfterBatch == IF i < Len(batches) THEN "batch_pause" ELSE "summary"
ExitAfterBatch == IF i < Len(batches) THEN exit ELSE "completed"

\* The limits files main is run with: none, or one with a record for every
\* configured account.
MainFiles == {NoFile} \cup { JsonFile(d) : d \in [AccountPhones -> StoredRecords] }

\* main at line 487: the AccountManager is constructed, the batches are read.
Init ==
    /\ today = StartDay
    /\ limits_file \in MainFiles
    /\ account_limits = load_account_limits(limits_file, today)
    /\ current_account_index = 0
    /\ mgr = "ready"
    /\ ret = None
    /\ history = <<>>
    /\ base = UsedToday(account_limits, today)
    /\ incs = NoIncs
    /\ nincs = 0
    /\ saved = "none"
    /\ pc = "select"
    /\ batches \in BatchLists
    /\ i = 1
    /\ account = None
    /\ clients = EmptyDict
    /\ j = 0
    /\ result = <<>>
    /\ output = <<>>
    /\ processed_count = 0
    /\ exit = "none"
    /\ interrupted_at = "none"
    /\ lookups = [p \in AccountPhones |-> 0]
    /\ npauses = [request |-> 0, batch |-> 0]
    /\ rows_written = 0
    /\ quota_added = 0
    /\ write_ok = TRUE
    /\ faults = 0
    /\ live = [p \in AccountPhones |-> 0]
    /\ IdleBatch

\* At most MaxFaults I/O operations fail during a run of main.
MayFail == faults < MaxFaults
Failed(n) == faults' = faults + n

\* Mutant: a batch no account can take is skipped and the loop goes on.
AfterSelect_skip(sel) == IF sel = None THEN "batch_pause" ELSE "connect"

\* Lines 495-499: break when no account was returned, else go on to get_client.
AfterSelect(sel) == IF sel = None THEN "summary" ELSE "connect"

\* Lines 494-497: get_next_account(batch_size=len(batch)); break on None.
SelectAccount ==
    /\ pc = "select"
    /\ LET r == get_next_account(account_limits, today, current_account_index, batches[i])
       IN  /\ account' = r[1]
           /\ current_account_index' = r[2]
           /\ pc' = AfterSelect(r[1])
           /\ exit' = IF r[1] = None THEN "exhausted" ELSE exit
    /\ j' = 0
    /\ result' = <<>>
    /\ rows_written' = 0
    /\ quota_added' = 0
    /\ write_ok' = TRUE
    /\ UNCHANGED <<bvars, live, interrupted_at, today, limits_file, account_limits, hvars, batches, i, clients,
                   output, processed_count, lookups, npauses, faults>>

\* Line 499, get_client: the cached client if it is connected; else
\* login_account up to `await client.connect()` (lines 186-196), which
\* returns with the new client connected, or raises.
GetClient(connect_ok) ==
    /\ pc = "connect"
    /\ LET phone == accounts[account]
           cached == Cached(clients, phone)
       IN  /\ cached => connect_ok
           /\ ~connect_ok => MayFail
           /\ Failed(IF connect_ok THEN 0 ELSE 1)
           /\ live' = IF ~cached /\ connect_ok
                       THEN [live EXCEPT ![phone] = @ + 1]
                       ELSE live
           /\ pc' = IF cached THEN "lookup"
                     ELSE IF connect_ok THEN "authorize" ELSE "finally"
           /\ exit' = IF connect_ok THEN exit ELSE "exception"
           /\ j' = IF cached THEN 1 ELSE j
    /\ UNCHANGED <<bvars, interrupted_at, svars, hvars, batches, i, account, clients, result,
                   output, processed_count, lookups, npauses, rows_written, quota_added,
                   write_ok>>

\* The rest of login_account (lines 198-212: authorization, sign-in, the two
\* sleeps) and lines 179-180: the client is stored in self.clients and
\* returned, or an exception leaves login_account with the client connected
\* and not stored.
LoginAccount(login_ok) ==
    /\ pc = "authorize"
    /\ ~login_ok => MayFail
    /\ Failed(IF login_ok THEN 0 ELSE 1)
    /\ clients' = IF login_ok THEN DictSet(clients, accounts[account], TRUE) ELSE clients
    /\ pc' = IF login_ok THEN "lookup" ELSE "finally"
    /\ exit' = IF login_ok THEN exit ELSE "exception"
    /\ j' = IF login_ok THEN 1 ELSE j
    /\ UNCHANGED <<bvars, live, interrupted_at, svars, hvars, batches, i, account, result,
                   output, processed_count, lookups, npauses, rows_written, quota_added,
                   write_ok>>

\* Mutant: the number is compared with the keys as it was read, white space
\* included.
IsNew_raw(phone, res) == phone # <<>> /\ phone \notin Keys(res)

\* Line 349: clean_phone and clean_phone not in result
IsNew(phone, res) == CleanPhone(phone) # <<>> /\ CleanPhone(phone) \notin Keys(res)

\* validate_users, one iteration of its for-loop up to the next await
\* (lines 347-357), for any j-th number `phone` of the batch.
ProcessNumber ==
    /\ pc = "lookup"
    /\ \E phone \in PhoneChoices(j) :
       LET clean_phone == CleanPhone(phone)
           is_new == IsNew(phone, result)
           more == j < batches[i]
       IN  /\ result' = IF is_new THEN Append(result, clean_phone) ELSE result
           /\ lookups' = IF is_new
                          THEN [lookups EXCEPT ![accounts[account]] = @ + 1]
                          ELSE lookups
           /\ pc' = IF is_new /\ more THEN "pause"
                     ELSE IF more THEN "lookup" ELSE "persist"
           /\ j' = IF ~is_new /\ more THEN j + 1 ELSE j
    /\ UNCHANGED <<bvars, live, interrupted_at, svars, hvars, batches, i, account, clients, output, processed_count,
                   exit, npauses, rows_written, quota_added, write_ok, faults>>

\* Lines 355-357: the sleep between two numbers is over.
RequestPause ==
    /\ pc = "pause"
    /\ npauses' = [npauses EXCEPT !.request = @ + 1]
    /\ j' = j + 1
    /\ pc' = "lookup"
    /\ UNCHANGED <<bvars, live, interrupted_at, svars, hvars, batches, i, account, clients, result, output,
                   processed_count, exit, lookups, rows_written, quota_added, write_ok, faults>>

\* Mutant: the header is written whether or not the file has rows already,
\* after them.
write_header_if_needed_always(file, header_ok) ==
    IF header_ok THEN Append(file, HeaderRow) ELSE file

\* write_header_if_needed: the header goes to an absent or empty file; an
\* I/O error is logged and swallowed.
write_header_if_needed(file, header_ok) ==
    IF file = <<>> /\ header_ok THEN <<HeaderRow>> ELSE file

\* The rows parse_and_save_results appends: one per key of results_data, in
\* order; an exception after n rows is logged and swallowed.
RECURSIVE RowsOf(_, _, _)
RowsOf(res, checked_by, n) ==
    IF n = 0 THEN <<>>
    ELSE Append(RowsOf(res, checked_by, n - 1), ResultRow(res[n], checked_by))

parse_and_save_results(file, res, checked_by, header_ok, n) ==
    write_header_if_needed(file, header_ok) \o RowsOf(res, checked_by, n)

\* Lines 522-524 and 529-530: the results are written, whatever comes of
\* it, and processed_count grows; with no results nothing is written and
\* the quota is not incremented.
SaveResults(header_ok, n) ==
    /\ pc = "persist"
    /\ IF result # <<>>
       THEN /\ n \in 0..Len(result)
            /\ (output # <<>>) => header_ok
            /\ (~header_ok \/ n < Len(result)) => MayFail
            /\ Failed(IF header_ok /\ n = Len(result) THEN 0 ELSE 1)
            /\ output' = parse_and_save_results(output, result, accounts[account],
                                                 header_ok, n)
            /\ rows_written' = n
            /\ write_ok' = (n = Len(result))
            /\ processed_count' = processed_count + batches[i]
            /\ pc' = "increment"
            /\ exit' = exit
       ELSE /\ header_ok /\ n = 0
            /\ pc' = AfterBatch
            /\ exit' = ExitAfterBatch
            /\ UNCHANGED <<output, rows_written, write_ok, processed_count, faults>>
    /\ UNCHANGED <<bvars, live, interrupted_at, svars, hvars, batches, i, account, clients, j, result, lookups,
                   npauses, quota_added>>

\* Line 526: increment_account_limit(account['phone_number'], len(batch)),
\* with its save; then the end of the loop body.
IncrementQuota(outcome) ==
    /\ pc = "increment"
    /\ outcome # "ok" => MayFail
    /\ Failed(IF outcome = "ok" THEN 0 ELSE 1)
    /\ LET r == increment_account_limit(limits_file, account_limits, today,
                                         accounts[account], batches[i], outcome)
       IN  account_limits' = r[1] /\ limits_file' = r[2]
    /\ saved' = outcome
    /\ quota_added' = batches[i]
    /\ pc' = AfterBatch
    /\ exit' = ExitAfterBatch
    /\ UNCHANGED <<bvars, live, interrupted_at, today, current_account_index, mgr, ret, history,
                   base, incs, nincs, batches, i, account, clients,
                   j, result, output, processed_count, lookups, npauses, rows_written,
                   write_ok>>

\* Mutant: the for-loop takes the same batch again.
NextBatchIndex_same(k) == k

\* Line 490: enumerate(batches, 1) goes on to the next batch.
NextBatchIndex(k) == k + 1

\* Lines 533-536: the sleep between two batches is over; the next batch.
BatchPause ==
    /\ pc = "batch_pause"
    /\ npauses' = [npauses EXCEPT !.batch = @ + 1]
    /\ i' = NextBatchIndex(i)
    /\ pc' = "select"
    /\ UNCHANGED <<bvars, live, interrupted_at, svars, hvars, batches, account, clients, j, result, output,
                   processed_count, exit, lookups, rows_written, quota_added, write_ok, faults>>

\* Lines 538-542: the final summary is logged.
Summary ==
    /\ pc = "summary"
    /\ pc' = "finally"
    /\ UNCHANGED <<bvars, live, interrupted_at, svars, hvars, batches, i, account, clients, j, result, output,
                   processed_count, exit, lookups, npauses, rows_written, quota_added,
                   write_ok, faults>>

\* Lines 546-548 with disconnect_all: every client of self.clients that is
\* connected is disconnected.
Finally ==
    /\ pc = "finally"
    /\ clients' = [p \in DOMAIN clients |-> FALSE]
    /\ live' = [p \in AccountPhones |->
                   IF Cached(clients, p) THEN live[p] - 1 ELSE live[p]]
    /\ pc' = "done"
    /\ UNCHANGED <<bvars, interrupted_at, svars, hvars, batches, i, account, j, result, output,
                   processed_count, exit, lookups, npauses, rows_written, quota_added,
                   write_ok, faults>>

\* The task is cancelled while main is suspended: CancelledError (not an
\* Exception) is raised at the await, passes validate_users and the
\* except clause of line 544, and the finally clause runs.
Interrupt ==
    /\ Suspended
    /\ pc' = "finally"
    /\ exit' = "interrupted"
    /\ interrupted_at' = pc
    /\ UNCHANGED <<bvars, live, svars, hvars, batches, i, account, clients, j, result, output,
                   processed_count, lookups, npauses, rows_written, quota_added, write_ok, faults>>

\* Midnight passes while main awaits a lookup or sleeps between two batches.
MidnightInMain == pc \in {"lookup", "batch_pause"} /\ Midnight

Next ==
    \/ SelectAccount
    \/ \E ok \in BOOLEAN : GetClient(ok)
    \/ \E ok \in BOOLEAN : LoginAccount(ok)
    \/ ProcessNumber
    \/ RequestPause
    \/ \E ok \in BOOLEAN, n \in 0..(MaxBatchSize + 1) : SaveResults(ok, n)
    \/ \E o \in SaveOutcomes : IncrementQuota(o)
    \/ BatchPause
    \/ Summary
    \/ Finally
    \/ Interrupt
    \/ MidnightInMain

Spec == Init /\ [][Next]_vars

\* main when every await returns: no login raises and main is not
\* cancelled; each step that can be taken is taken in the end.  The rows go
\* to the output file, which main never reads; a save of the limits file may
\* still fail.
NextLive ==
    \/ SelectAccount
    \/ GetClient(TRUE)
    \/ LoginAccount(TRUE)
    \/ ProcessNumber
    \/ RequestPause
    \/ SaveResults(TRUE, Len(result))
    \/ \E o \in SaveOutcomes : IncrementQuota(o)
    \/ BatchPause
    \/ Summary
    \/ Finally
    \/ MidnightInMain

SpecLive == Init /\ [][NextLive]_vars /\ WF_vars(NextLive)

\* A cached client loses its connection while main is suspended:
\* is_connected() is False from then on.
Drop(phone) ==
    /\ Suspended
    /\ Cached(clients, phone)
    /\ clients' = [clients EXCEPT ![phone] = FALSE]
    /\ live' = [live EXCEPT ![phone] = @ - 1]
    /\ UNCHANGED <<bvars, svars, hvars, pc, batches, i, account, j, result, output,
                   processed_count, exit, interrupted_at, lookups, npauses, rows_written,
                   quota_added, write_ok, faults>>

\* main with connections that may be lost, started without a limits file.
InitSess == Init /\ limits_file = NoFile

NextSess ==
    \/ Next
    \/ \E p \in AccountPhones : Drop(p)

SpecSess == InitSess /\ [][NextSess]_vars

\* ------------------------------------------- validate_users and get_names

\* The lists validate_users is called with: numbers, the first number again
\* with a space inside, and an entry of white space only.
Blank == <<" ">>
BatchPhones == {Number(1), Number(2), Spaced(1), Blank}
PhoneLists == UNION { [1..n -> BatchPhones] : n \in 1..(MaxBatchSize + 1) }

\* Line 284: '+' + phone_number if not phone_number.startswith('+')
WithPlus(phone) ==
    IF phone # <<>> /\ Head(phone) = "+" THEN phone ELSE <<"+">> \o phone

\* The dict get_names returns: the user's fields ("user"), or {"error": ...}
\* with the message of line 302 ("not_found"), 325 ("several"), 327
\* ("type_error", which says the contact may not have been deleted) or 329
\* ("unexpected").
Failures == {"not_found", "several", "type_error", "unexpected"}
Raised == {"type_error", "unexpected"}

GetNamesCall(phone) == [op |-> "get_names", phone |-> phone]
SleepCall == [op |-> "sleep", phone |-> <<>>]

\* One account, logged in, no quota kept; validate_users is about to be called.
InitBatch ==
    /\ today = StartDay
    /\ limits_file = NoFile
    /\ account_limits = EmptyDict
    /\ current_account_index = 0
    /\ mgr = "ready"
    /\ ret = None
    /\ history = <<>>
    /\ base = ZeroGhost
    /\ incs = NoIncs
    /\ nincs = 0
    /\ saved = "none"
    /\ pc = "v_call"
    /\ batches = <<>>
    /\ i = 1
    /\ account = 0
    /\ clients = DictSet(EmptyDict, accounts[0], TRUE)
    /\ j = 0
    /\ result = <<>>
    /\ output = <<>>
    /\ processed_count = 0
    /\ exit = "none"
    /\ interrupted_at = "none"
    /\ lookups = [p \in AccountPhones |-> 0]
    /\ npauses = [request |-> 0, batch |-> 0]
    /\ rows_written = 0
    /\ quota_added = 0
    /\ write_ok = TRUE
    /\ faults = 0
    /\ live = [p \in AccountPhones |-> IF p = accounts[0] THEN 1 ELSE 0]
    /\ IdleBatch

\* What the steps of validate_users leave alone.
BatchFrame ==
    UNCHANGED <<svars, hvars, batches, i, account, clients, output, processed_count, exit,
                interrupted_at, quota_added, rows_written, write_ok, faults, live>>

\* Line 513: validate_users(client, batch, ...) is called; line 346.
CallValidateUsers(batch) ==
    /\ pc = "v_call"
    /\ phone_numbers' = batch
    /\ j' = 1
    /\ result' = <<>>
    /\ answers' = <<>>
    /\ events' = <<>>
    /\ pc' = "v_number"
    /\ UNCHANGED <<contacts, lookups, npauses>>
    /\ BatchFrame

\* Line 354: i < len(phone_numbers)
MorePhones(k, numbers, res) == k < Len(numbers)

\* Lines 347-351: the j-th number is cleaned; get_names is called for it when
\* it is not empty and not a key of result yet, else the loop goes on.
NextNumber ==
    /\ pc = "v_number"
    /\ LET clean_phone == CleanPhone(phone_numbers[j])
       IN  IF IsNew(phone_numbers[j], result)
           THEN /\ pc' = "g_import"
                /\ events' = Append(events, GetNamesCall(clean_phone))
                /\ lookups' = [lookups EXCEPT ![accounts[account]] = @ + 1]
                /\ j' = j
           ELSE /\ pc' = IF j < Len(phone_numbers) THEN "v_number" ELSE "v_save"
                /\ j' = IF j < Len(phone_numbers) THEN j + 1 ELSE j
                /\ UNCHANGED <<events, lookups>>
    /\ UNCHANGED <<phone_numbers, result, answers, contacts, npauses>>
    /\ BatchFrame

\* Mutant: an exception raised in get_names leaves validate_users, which
\* returns what it has.
AfterGetNames_raise(answer, more) ==
    IF answer \in Raised THEN "v_save" ELSE IF more THEN "v_sleep" ELSE "v_save"

\* Lines 351-357: what follows get_names in validate_users.
AfterGetNames(answer, more) == IF more THEN "v_sleep" ELSE "v_save"

\* Lines 332 and 351: get_names returns `answer`, which validate_users
\* stores under clean_phone.
GetNamesReturns(answer) ==
    /\ result' = Append(result, CleanPhone(phone_numbers[j]))
    /\ answers' = Append(answers, answer)
    /\ pc' = AfterGetNames(answer, MorePhones(j, phone_numbers, result'))

\* Lines 289-302 and 324-330: ImportContactsRequest resolves the number to
\* `users` users, who are then contacts of the account; `raised` is the
\* exception raised before line 301, if any.
ImportContacts(users, raised) ==
    /\ pc = "g_import"
    /\ contacts' = IF users > 0
                   THEN contacts \cup {WithPlus(CleanPhone(phone_numbers[j]))}
                   ELSE contacts
    /\ IF raised # "none" THEN GetNamesReturns(raised)
       ELSE IF users = 0 THEN GetNamesReturns("not_found")
       ELSE IF users = 1
            THEN pc' = "g_delete" /\ UNCHANGED <<result, answers>>
            ELSE GetNamesReturns("several")
    /\ UNCHANGED <<phone_numbers, j, events, lookups, npauses>>
    /\ BatchFrame

\* Lines 304-320: the sleep of 3 seconds and DeleteContactsRequest, which
\* removes the contact or raises; an exception may also be raised after
\* the removal (lines 310-320).
DeleteContacts(removed, raised) ==
    /\ pc = "g_delete"
    /\ ~removed => raised # "none"
    /\ contacts' = IF removed
                   THEN contacts \ {WithPlus(CleanPhone(phone_numbers[j]))}
                   ELSE contacts
    /\ GetNamesReturns(IF raised = "none" THEN "user" ELSE raised)
    /\ UNCHANGED <<phone_numbers, j, events, lookups, npauses>>
    /\ BatchFrame

\* Lines 355-357: the sleep between two numbers is over; the next number.
RequestSleep ==
    /\ pc = "v_sleep"
    /\ events' = Append(events, SleepCall)
    /\ npauses' = [npauses EXCEPT !.request = @ + 1]
    /\ j' = j + 1
    /\ pc' = "v_number"
    /\ UNCHANGED <<phone_numbers, result, answers, contacts, lookups>>
    /\ BatchFrame

\* Lines 522-523: validate_users has returned; parse_and_save_results when
\* there are results.
SaveBatch(header_ok, n) ==
    /\ pc = "v_save"
    /\ IF result # <<>>
       THEN /\ n \in 0..Len(result)
            /\ (output # <<>>) => header_ok
            /\ (~header_ok \/ n < Len(result)) => MayFail
            /\ Failed(IF header_ok /\ n = Len(result) THEN 0 ELSE 1)
            /\ output' = parse_and_save_results(output, result, accounts[account],
                                                 header_ok, n)
            /\ rows_written' = n
            /\ write_ok' = (n = Len(result))
       ELSE /\ header_ok /\ n = 0
            /\ UNCHANGED <<output, rows_written, write_ok, faults>>
    /\ pc' = "v_end"
    /\ UNCHANGED <<svars, hvars, batches, i, account, clients, j, result, processed_count, exit,
                   interrupted_at, lookups, npauses, quota_added, live, bvars>>

NextBatch ==
    \/ \E b \in PhoneLists : CallValidateUsers(b)
    \/ NextNumber
    \/ \E users \in 0..2, raised \in Raised \cup {"none"} : ImportContacts(users, raised)
    \/ \E removed \in BOOLEAN, raised \in Raised \cup {"none"} : DeleteContacts(removed, raised)
    \/ RequestSleep
    \/ \E ok \in BOOLEAN, n \in 0..(MaxBatchSize + 1) : SaveBatch(ok, n)

SpecBatch == InitBatch /\ [][NextBatch]_vars

\* ------------------------------------------------------- the output file

\* The results_data main passes to parse_and_save_results: a dict that is
\* not empty, its keys distinct cleaned numbers.
ResultsData ==
    {<<Number(1)>>, <<Number(2)>>, <<Number(1), Number(2)>>, <<Number(2), Number(1)>>}

\* No output file yet, no batch processed.
InitOut ==
    /\ today = StartDay
    /\ limits_file = NoFile
    /\ account_limits = EmptyDict
    /\ current_account_index = 0
    /\ mgr = "ready"
    /\ ret = None
    /\ history = <<>>
    /\ base = ZeroGhost
    /\ incs = NoIncs
    /\ nincs = 0
    /\ saved = "none"
    /\ IdleMain

\* Line 523, parse_and_save_results(result_data, output_csv, phone) for the
\* results of a batch made by account `acct`, in this run or a later run
\* on the same output file (the function keeps no state but the file):
\* write_header_if_needed, then the rows.
CallParseAndSave(res, acct, header_ok, n) ==
    /\ pc = "idle"
    /\ Len(output) + Len(res) <= MaxRows
    /\ n \in 0..Len(res)
    /\ (output # <<>>) => header_ok
    /\ (~header_ok \/ n < Len(res)) => MayFail
    /\ Failed(IF header_ok /\ n = Len(res) THEN 0 ELSE 1)
    /\ result' = res
    /\ account' = acct
    /\ output' = parse_and_save_results(output, res, accounts[acct], header_ok, n)
    /\ rows_written' = n
    /\ write_ok' = (n = Len(res))
    /\ UNCHANGED <<svars, hvars, bvars, pc, batches, i, clients, j, processed_count, exit,
                   interrupted_at, lookups, npauses, quota_added, live>>

NextOut ==
    \/ \E res \in ResultsData, acct \in DOMAIN accounts, ok \in BOOLEAN,
          n \in 0..(MaxBatchSize + 1) : CallParseAndSave(res, acct, ok, n)

SpecOut == InitOut /\ [][NextOut]_vars

\* ------------------------------------------------------------------ claims

RECURSIVE SumSeq(_)
SumSeq(q) == IF q = <<>> THEN 0 ELSE Head(q) + SumSeq(Tail(q))

Fits(phone, batch_size) ==
    Recorded(account_limits, today, phone) + batch_size <= ACCOUNT_DAILY_LIMIT

\* The offsets from index cur, in scan order, at which an account fits.
FittingOffsets(cur, batch_size) ==
    { o \in 0..(NumAccounts - 1) : Fits(accounts[(cur + o) % NumAccounts], batch_size) }

NoEntryToday(phone) ==
    phone \notin DOMAIN account_limits \/ today \notin DOMAIN account_limits[phone]

\* C1: every get_next_account call returns the first account, in round-robin
\* order from the rotation index, whose usage today plus batch_size is at
\* most 50, and leaves the index at (selected + 1) mod N; it returns an
\* account whenever one fits.
C1_FirstFittingSelected ==
    \A k \in 1..Len(history) :
        LET h == history[k]
            offs == FittingOffsets(h.idx0, h.bs)
        IN  /\ (offs # {}) <=> (h.sel # None)
            /\ h.sel # None =>
                  \E o \in offs :
                      /\ \A o2 \in offs : o <= o2
                      /\ h.sel = (h.idx0 + o) % NumAccounts
                      /\ h.idx1 = (h.sel + 1) % NumAccounts

\* C1 witness: a call that skipped the account at the rotation index, which
\* did not fit, and selected a later one.
C1_Witness ==
    \E k \in 1..Len(history) :
        /\ history[k].sel # None
        /\ history[k].sel # history[k].idx0
        /\ history[k].bs <= ACCOUNT_DAILY_LIMIT

AllFit(batch_size) == \A p \in AccountPhones : Fits(p, batch_size)

\* C2: from rotation index 0, with every account fitting each batch size
\* asked for and no increment in between, the k-th consecutive call returns
\* account (k-1) mod N: the N accounts in configured order, then the first
\* again.
C2_RoundRobin ==
    ( /\ history # <<>>
      /\ history[1].idx0 = 0
      /\ \A k \in 1..Len(history) : AllFit(history[k].bs) )
    => \A k \in 1..Len(history) : history[k].sel = (k - 1) % NumAccounts

\* C2 witness: N + 1 consecutive calls from index 0 with every account fitting.
C2_Witness ==
    /\ Len(history) = NumAccounts + 1
    /\ history[1].idx0 = 0
    /\ \A k \in 1..Len(history) : AllFit(history[k].bs)
    /\ \E p \in AccountPhones : Recorded(account_limits, today, p) > 0

IsCallStep == history' # history /\ history' # <<>>

\* C3: a get_next_account call for which no account fits returns None and
\* changes neither the rotation index nor the quota store (in memory or on
\* disk).
C3_ExhaustionLeavesStateAlone ==
    [][ (IsCallStep /\ FittingOffsets(current_account_index,
                                       history'[Len(history')].bs) = {})
        => /\ ret' = None
           /\ history'[Len(history')].sel = None
           /\ current_account_index' = current_account_index
           /\ account_limits' = account_limits
           /\ limits_file' = limits_file ]_vars

\* C3 witness: a call with a batch size of at most 50 returned None from a
\* rotation index other than 0.
C3_Witness ==
    \E k \in 1..Len(history) :
        /\ history[k].sel = None
        /\ history[k].bs <= ACCOUNT_DAILY_LIMIT
        /\ history[k].idx0 # 0

\* C4: with every recorded count at most 50 when main starts, every count
\* the store records, for every account and every date, stays at most 50
\* through the run, also when midnight passes between the selection of an
\* account and the increment.
C4_DailyLimitKept ==
    \A p \in DOMAIN account_limits : \A d \in DOMAIN account_limits[p] :
        account_limits[p][d] <= ACCOUNT_DAILY_LIMIT

\* C4 witness: the first batch went to an account that was 3 below the
\* limit, midnight passed during the batch, and the increment created the
\* new day's entry.
C4_Witness ==
    /\ i = 1
    /\ account # None
    /\ quota_added > 0
    /\ today = MaxDay
    /\ Recorded(account_limits, StartDay, accounts[account]) = NearLimit
    /\ Recorded(account_limits, today, accounts[account]) = quota_added

\* C5: once get_next_account has returned None for a batch, main makes no
\* lookup, writes no result, increments no quota and sleeps for no pacing,
\* for that batch or a later one; what was written stays; main goes through
\* the summary and the finally clause to its end, and no exception is
\* raised.  The halt happens only when no account fits the batch.
C5_ExhaustionHalts ==
    /\ [](exit = "exhausted" =>
            /\ pc \in {"summary", "finally", "done"}
            /\ FittingOffsets(current_account_index, batches[i]) = {})
    /\ [][ /\ exit' = "exhausted" =>
                 UNCHANGED <<lookups, output, account_limits, limits_file, npauses,
                             processed_count, current_account_index, i>>
           /\ exit = "exhausted" => exit' = "exhausted"
           /\ (pc = "select" /\ FittingOffsets(current_account_index, batches[i]) = {})
                 => exit' = "exhausted" ]_vars

\* C5 witness: main has ended after the second batch found no account, with
\* the first batch's rows in the output and a later, smaller batch that an
\* account could have taken.
C5_Witness ==
    /\ pc = "done"
    /\ exit = "exhausted"
    /\ i = 2
    /\ Len(output) > 1
    /\ \E k \in (i + 1)..Len(batches) :
          /\ batches[k] < batches[i]
          /\ \E p \in AccountPhones : Fits(p, batches[k])

\* C6: while the date stays the same, get_account_limit equals its value
\* when the date began plus the sum of the deltas incremented since; the
\* first increment creates the account's entry for today.
C6_QuotaIsSumOfDeltas ==
    mgr = "ready" =>
        \A p \in AccountPhones :
            /\ get_account_limit(account_limits, today, p) = base[p] + SumSeq(incs[p])
            /\ incs[p] # <<>> =>
                  /\ p \in DOMAIN account_limits
                  /\ today \in DOMAIN account_limits[p]
                  /\ account_limits[p][today] = base[p] + SumSeq(incs[p])

\* C6 witness: two different deltas were incremented, on the start day, on
\* an account that read 0 when the store was loaded.
C6_Witness ==
    \E p \in AccountPhones :
        /\ Len(incs[p]) = 2
        /\ incs[p][1] # incs[p][2]
        /\ base[p] = 0
        /\ limits_file.kind = "json"
        /\ today = StartDay

\* C7: an account whose record has no entry for today reads as 0 used today,
\* whatever earlier dates record, and get_next_account selects it for a
\* batch size up to 50 (1, 47 and 50 are tried in every state, besides the
\* calls made) when the rotation index is at it; a stored record without
\* today's date reads as 0 once loaded.
C7_DailyReset ==
    mgr = "ready" =>
        /\ \A p \in AccountPhones :
              NoEntryToday(p) =>
                  /\ get_account_limit(account_limits, today, p) = 0
                  /\ \A b \in {1, NearLimit, ACCOUNT_DAILY_LIMIT} : \A cur \in DOMAIN accounts :
                        accounts[cur] = p =>
                            get_next_account(account_limits, today, cur, b)[1] = cur
        /\ \A k \in 1..Len(history) :
              (NoEntryToday(accounts[history[k].idx0])
                   /\ history[k].bs <= ACCOUNT_DAILY_LIMIT)
              => history[k].sel = history[k].idx0
        /\ (nincs = 0 /\ today = StartDay) =>
              \A p \in DOMAIN limits_file.data :
                  StartDay \notin DOMAIN limits_file.data[p]
                  => get_account_limit(account_limits, today, p) = 0

\* C7 witness: after midnight an account whose record holds 50 for the day
\* before and nothing for today was selected for a batch.
C7_Witness ==
    \E k \in 1..Len(history) :
        LET p == accounts[history[k].idx0]
        IN  /\ today = MaxDay
            /\ p \in DOMAIN account_limits
            /\ today \notin DOMAIN account_limits[p]
            /\ StartDay \in DOMAIN account_limits[p]
            /\ account_limits[p][StartDay] = ACCOUNT_DAILY_LIMIT
            /\ history[k].sel = history[k].idx0
            /\ history[k].idx0 # 0

\* C8: right after load_account_limits every stored account whose record
\* lacked today's date has the record {today: 0}, and no loaded record holds
\* a date other than today.
C8_LoadPrunesStaleDates ==
    (mgr = "ready" /\ nincs = 0 /\ today = StartDay) =>
        \A p \in DOMAIN limits_file.data :
            /\ p \in DOMAIN account_limits
            /\ StartDay \notin DOMAIN limits_file.data[p]
                  => account_limits[p] = DictSet(EmptyDict, today, 0)
            /\ DOMAIN account_limits[p] \subseteq {today}

\* C9: when the write of a batch's results failed, the quota of the account
\* used for the batch is not incremented.
C9_NoIncrementAfterFailedWrite ==
    ~write_ok => quota_added = 0

\* C10: when main was cancelled while the k-th number of a batch was looked
\* up, the results of the numbers before it are in the output and the quota
\* of the account was incremented by k - 1.
C10_PartialBatchFlushed ==
    (pc = "done" /\ interrupted_at = "lookup" /\ j >= 2) =>
        /\ rows_written = Len(result)
        /\ Len(output) >= Len(result)
        /\ \A k \in 1..Len(result) :
              output[Len(output) - Len(result) + k] = ResultRow(result[k], accounts[account])
        /\ quota_added = j - 1

\* C11: a failure of get_client for the account selected for a batch ends
\* that batch only: main goes on to the batches after it, so when main has
\* ended after such a failure the failed batch was the last one.
C11_SessionFailureAbortsBatchOnly ==
    (pc = "done" /\ exit = "exception") => i = Len(batches)

\* The distinct non-empty cleaned numbers among the first k of a list, in
\* the order of their first occurrence.
RECURSIVE Firsts(_, _)
Firsts(numbers, k) ==
    IF k = 0 THEN <<>>
    ELSE LET prev == Firsts(numbers, k - 1)
             c == CleanPhone(numbers[k])
         IN  IF c # <<>> /\ c \notin Keys(prev) THEN Append(prev, c) ELSE prev

\* The get_names calls among the events, in order.
LookupsOf(ev) == SelectSeq(ev, LAMBDA e : e.op = "get_names")

\* How many numbers of the list validate_users is done with.
NumbersDone == IF pc \in {"v_number", "g_import", "g_delete"} THEN j - 1 ELSE j

\* C12: whatever get_names returned for the numbers before (a user, not
\* found, several matches, an exception caught), validate_users stores one
\* answer per number looked up and goes on: the numbers it is done with are
\* all in the result, in the order supplied, and when it returns it is done
\* with the whole list and has called get_names for each distinct number,
\* in that order.
C12_FailureNeverAbortsBatch ==
    pc \in {"v_number", "g_import", "g_delete", "v_sleep", "v_save", "v_end"} =>
        /\ result = Firsts(phone_numbers, NumbersDone)
        /\ Len(answers) = Len(result)
        /\ \A k \in DOMAIN answers : answers[k] \in Failures \cup {"user"}
        /\ pc \in {"v_save", "v_end"} =>
              /\ NumbersDone = Len(phone_numbers)
              /\ LookupsOf(events) =
                    [k \in DOMAIN result |-> GetNamesCall(result[k])]

\* C12 witness: validate_users returned two results after the first lookup
\* raised an exception and the second found several matches, with the
\* second number first in the list.
C12_Witness ==
    /\ pc = "v_end"
    /\ result = <<Number(2), Number(1)>>
    /\ answers[1] \in Raised
    /\ answers[2] = "several"

\* The result rows of the output file, and the get_names calls of the run.
DataRows(out) == SelectSeq(out, LAMBDA row : ~row.header)
RECURSIVE SumOver(_, _)
SumOver(f, S) ==
    IF S = {} THEN 0
    ELSE LET x == CHOOSE y \in S : TRUE IN f[x] + SumOver(f, S \ {x})

\* The results of the batch at hand are not in the output yet.
Unsaved ==
    \/ pc \in {"lookup", "pause", "persist"}
    \/ exit = "interrupted" /\ interrupted_at \in {"lookup", "pause"}

\* C13: in every batch the keys of the result are distinct cleaned numbers,
\* each looked up once however often it occurs in the batch; a number that
\* occurs in two batches is looked up once in each: as long as no I/O
\* operation failed, the run has made as many get_names calls as there are
\* result rows in the output and results not saved yet.  When a batch's
\* results are written, the rows appended are one per key, in order.
C13_OneLookupAndRowPerNumber ==
    /\ Cardinality(Keys(result)) = Len(result)
    /\ \A k \in DOMAIN result : result[k] = CleanPhone(result[k]) /\ result[k] # <<>>
    /\ faults = 0 =>
          SumOver(lookups, AccountPhones)
              = Len(DataRows(output)) + (IF Unsaved THEN Len(result) ELSE 0)
    /\ (pc \in {"increment", "batch_pause", "summary"} /\ write_ok /\ result # <<>>) =>
          /\ rows_written = Len(result)
          /\ \A k \in DOMAIN result :
                output[Len(output) - Len(result) + k]
                    = ResultRow(result[k], accounts[account])

\* C13 witness: the second batch had two entries that are one number, which
\* was looked up once and written as one row; the first batch had looked up
\* the same number and written a row for it.
C13_Witness ==
    /\ i = 2
    /\ pc = "increment"
    /\ batches[i] = 2
    /\ result = <<Number(1)>>
    /\ write_ok
    /\ faults = 0
    /\ SumOver(lookups, AccountPhones) = Len(DataRows(output))
    /\ \E k \in 1..(Len(output) - 1) : ~output[k].header /\ output[k].phone = Number(1)


\* C14: the get_names calls and the pacing sleeps of one validate_users call
\* alternate, starting with a get_names call, and when validate_users
\* returns the last of them is a get_names call: no sleep after the last
\* lookup, also when the entries after it are duplicates or blank.
C14_PauseOnlyBetweenLookups ==
    /\ \A k \in DOMAIN events :
          events[k].op = (IF k % 2 = 1 THEN "get_names" ELSE "sleep")
    /\ (pc \in {"v_save", "v_end"} /\ events # <<>>) =>
          events[Len(events)].op = "get_names"

\* C15: batch i is dispatched after exactly i - 1 sleeps between batches,
\* one after each batch before it; main sleeps between batches only when a
\* batch is still to come, and only after the results of the batch just done
\* were handed to parse_and_save_results and its quota was incremented; a
\* run that completes has slept once less than it has batches.
C15_PauseBetweenBatchesOnly ==
    /\ npauses.batch = i - 1
    /\ pc = "batch_pause" =>
          /\ i < Len(batches)
          /\ result # <<>> =>
                /\ quota_added = batches[i]
                /\ write_ok => rows_written = Len(result)
    /\ (pc = "done" /\ exit = "completed") =>
          /\ i = Len(batches)
          /\ npauses.batch = Len(batches) - 1

\* C15 witness: a run of three batches completed after two sleeps between
\* batches.
C15_Witness ==
    /\ pc = "done"
    /\ exit = "completed"
    /\ Len(batches) = 3
    /\ npauses.batch = 2
    /\ Len(DataRows(output)) >= 3

\* C16: the quota store changes only in the increment that follows
\* parse_and_save_results for the batch (the rows are in the output by
\* then and the output is not written again in the step); the increment
\* adds len(batch) to today's count of the account that made the lookups
\* and changes no other count, of any account or date.
C16_IncrementAfterWrite ==
    [][ account_limits' # account_limits =>
          /\ pc = "increment"
          /\ output' = output
          /\ write_ok =>
                /\ rows_written = Len(result)
                /\ \A k \in DOMAIN result :
                      output[Len(output) - Len(result) + k]
                          = ResultRow(result[k], accounts[account])
          /\ quota_added' = batches[i]
          /\ Recorded(account_limits', today, accounts[account])
                = Recorded(account_limits, today, accounts[account]) + batches[i]
          /\ \A q \in AccountPhones : \A d \in Days :
                (q # accounts[account] \/ d # today) =>
                    Recorded(account_limits', d, q) = Recorded(account_limits, d, q)
          /\ DOMAIN account_limits' = (DOMAIN account_limits) \cup {accounts[account]}
      ]_vars

\* C16 witness: the results of a batch of two entries that are one number
\* were written, and the quota of the account used went from 47 to 49 while
\* another account has a count of its own.
C16_Witness ==
    /\ pc \in {"batch_pause", "summary"}
    /\ write_ok
    /\ batches[i] = 2
    /\ Len(result) = 1
    /\ rows_written = 1
    /\ quota_added = 2
    /\ Recorded(account_limits, today, accounts[account]) = NearLimit + 2
    /\ \E q \in AccountPhones :
          q # accounts[account] /\ Recorded(account_limits, today, q) > 0

\* C17: whenever the last save_account_limits succeeded the file holds the
\* whole in-memory store, at every point until the next increment; and as
\* long as the last save, if there was one, succeeded, a process that loads
\* the file at that point reads the used-today counts the running process
\* has.
C17_FileEqualsStoreAfterSave ==
    mgr = "ready" =>
        /\ saved = "ok" => limits_file = JsonFile(account_limits)
        /\ saved \in {"none", "ok"} =>
              \A p \in StoredPhones :
                  get_account_limit(load_account_limits(limits_file, today), today, p)
                      = get_account_limit(account_limits, today, p)

\* C17 witness: after two increments, the second after midnight, the file
\* holds the store, in which an account has counts for both days.
C17_Witness ==
    /\ saved = "ok"
    /\ nincs = 2
    /\ today = MaxDay
    /\ limits_file = JsonFile(account_limits)
    /\ \E p \in AccountPhones :
          /\ p \in DOMAIN account_limits
          /\ {StartDay, MaxDay} \subseteq DOMAIN account_limits[p]
          /\ account_limits[p][MaxDay] > 0

\* C18: when main has ended, however it ended, no TelegramClient that was
\* connected during the run is still connected.
C18_AllSessionsClosedAtExit ==
    pc = "done" => \A p \in AccountPhones : live[p] = 0

\* C19: no account ever has more than one connected client, and the client
\* in self.clients is the connected one; get_client with a connected cached
\* client returns it without logging in (no client is created, self.clients
\* is not changed); a client is connected only by get_client for the
\* selected account when it has no cached client or a disconnected one.
C19_OneSessionPerAccount ==
    /\ [](\A p \in AccountPhones :
             /\ live[p] <= 1
             /\ Cached(clients, p) => live[p] = 1)
    /\ [][ /\ (pc = "connect" /\ Cached(clients, accounts[account]) /\ pc' # pc) =>
                 /\ pc' = "lookup"
                 /\ live' = live
                 /\ clients' = clients
           /\ (\E p \in AccountPhones : live'[p] > live[p]) =>
                 /\ pc = "connect"
                 /\ ~Cached(clients, accounts[account])
                 /\ live' = [live EXCEPT ![accounts[account]] = @ + 1]
         ]_vars

\* C19 witness: in the third batch a new client was connected for the first
\* account, whose cached client had lost its connection, while the other
\* account's cached client is connected.
C19_Witness ==
    /\ pc = "authorize"
    /\ i = 3
    /\ accounts[account] \in DOMAIN clients
    /\ ~clients[accounts[account]]
    /\ live[accounts[account]] = 1
    /\ \E q \in AccountPhones : q # accounts[account] /\ Cached(clients, q)

\* C20: for every number looked up, when get_names has returned, the contact
\* imported for it is no longer a contact of the account, or the error
\* message returned says that the contact may not have been deleted.
C20_ContactRemovedOrReported ==
    \A k \in DOMAIN result :
        WithPlus(result[k]) \in contacts => answers[k] = "type_error"

IsPrefix(a, b) == Len(a) <= Len(b) /\ \A k \in DOMAIN a : b[k] = a[k]

\* C21: the output file never has more than one header row, and only as its
\* first row; it has one whenever it is not empty and no write to it has
\* ever failed; a
\* call of parse_and_save_results writes a header only to an absent or empty
\* file, leaves the rows there as they are and where they are, and appends
\* after them the new rows, which carry the phone of the account that made
\* the check.
C21_OutputAppendOnly ==
    /\ [](/\ \A k \in DOMAIN output : output[k].header => k = 1
          /\ (output # <<>> /\ faults = 0) => output[1].header)
    /\ [][ output' # output =>
              /\ IsPrefix(output, output')
              /\ \A k \in (Len(output) + 1)..Len(output') :
                    IF output'[k].header
                    THEN output = <<>> /\ k = 1
                    ELSE /\ output'[k].by = accounts[account']
                         /\ \E m \in DOMAIN result' : output'[k].phone = result'[m]
         ]_vars

\* C21 witness: three calls for two accounts have written one header and
\* four rows, the rows of the first account before those of the second.
C21_Witness ==
    /\ Len(output) = 5
    /\ output[1].header
    /\ output[2].by # output[5].by
    /\ output[2].phone = output[5].phone
    /\ faults = 0
    /\ result = <<Number(1)>>

\* C22: when every lookup, connection and sleep returns, main reaches its
\* end with all batches processed or with no account left for a batch; and
\* get_next_account is called for a batch only once: main comes to the
\* selection of an account only with the next batch, never the same batch
\* or an earlier one.
C22_Terminates ==
    /\ <>(pc = "done" /\ exit \in {"completed", "exhausted"})
    /\ [][ /\ (pc # "select" /\ pc' = "select") => i' = i + 1
           /\ i' >= i
           /\ (pc = "select" /\ pc' # "select") => i' = i
         ]_vars

\* C22 witness: a run of three batches has ended with every batch processed,
\* midnight having passed and a save of the limits file having failed on the
\* way.
C22_Witness ==
    /\ pc = "done"
    /\ exit = "completed"
    /\ Len(batches) = 3
    /\ i = 3
    /\ today = MaxDay
    /\ faults = 1

\* The quota increments the run has recorded for an account: what the store
\* holds for it from the day main started on, less what it held at the start.
RunIncrements(phone) ==
    SumOver([d \in Days |-> Recorded(account_limits, d, phone)],
            { d \in Days : d >= StartDay }) - base[phone]

\* main is between two batches, or past the last one it took up.
AtBatchBoundary ==
    \/ pc \in {"select", "batch_pause"}
    \/ pc \in {"summary", "finally", "done"} /\ interrupted_at \notin {"lookup", "pause"}

\* C23: at every batch boundary of a run each account has made at most as
\* many get_names calls in the run as the run has added to its quota; and
\* as long as the date is the one main started on, the count the store held
\* for an account at the start plus the calls it has made since is at most
\* 50, at every point of the run.
C23_NoUnderCounting ==
    \A p \in AccountPhones :
        /\ AtBatchBoundary => lookups[p] <= RunIncrements(p)
        /\ today = StartDay => base[p] + lookups[p] <= ACCOUNT_DAILY_LIMIT

\* C23 witness: an account that started 3 below the limit has taken two
\* batches of three entries in all, one batch holding a number twice: it
\* has made two lookups, the run recorded 3 for it and it is at the limit.
C23_Witness ==
    /\ pc = "batch_pause"
    /\ i = 2
    /\ today = StartDay
    /\ \E p \in AccountPhones :
          /\ base[p] = NearLimit
          /\ lookups[p] = 2
          /\ RunIncrements(p) = 3
          /\ Recorded(account_limits, today, p) = ACCOUNT_DAILY_LIMIT

====
